---- MODULE Spec2Model ----
(***************************************************************************)
(* Model of verify_build.py: a runner that changes into the repository     *)
(* directory, runs "dotnet build" and, if that succeeded, "dotnet test     *)
(* --no-build", printing a banner, the captured child output and a         *)
(* success/failure indicator per stage.                                    *)
(*                                                                         *)
(* One action per source line (or per branch of it).  The child process    *)
(* and the directory are the environment: the child's exit status and the  *)
(* lengths of its captured stdout/stderr are chosen when it terminates,    *)
(* and whether it ever terminates is chosen when it is spawned.            *)
(*                                                                         *)
(* A text captured from a child is represented by its length (the runner   *)
(* only tests it for emptiness and passes it through).  "out" and "err"    *)
(* are the runner's two streams in the order of the print calls; "log" is  *)
(* the history of all events of the run (prints, chdir, spawn, child       *)
(* exit) in program order and "exits" records what each terminated child  *)
(* of the run produced.  "history" keeps one summary per completed         *)
(* earlier run, so that successive runs can be compared.                   *)
(***************************************************************************)
EXTENDS Integers, Sequences, FiniteSets

VARIABLES pc, stage, child, result, ok, out, err, log, exits, exitCode, history

vars == <<pc, stage, child, result, ok, out, err, log, exits, exitCode, history>>

\* ---- bounds ----
MaxRc == 1
MaxLen == 1
MaxRuns == 2

\* ---- program constants ----
SepWidth == 60

Rcs == (0 - MaxRc)..MaxRc
TextLens == 0..MaxLen
Stages == {"build", "test"}

Cmd(s) == IF s = "build" THEN "dotnet build DistributedLeasing.sln"
          ELSE "dotnet test DistributedLeasing.sln --no-build"

Description(s) == IF s = "build" THEN "Building Solution" ELSE "Running Tests"

BuildFailedMsg == "Build FAILED"
BuildSuccessMsg == "Build SUCCESS"
TestsFailedMsg == "Tests FAILED"
TestsPassedMsg == "Tests PASSED"
SummaryMsg == "All tasks completed successfully!"

Ev(k, s, t, v) == [kind |-> k, stage |-> s, text |-> t, val |-> v]

NoChild == [state |-> "none", hangs |-> FALSE, returncode |-> 0, stdout |-> 0, stderr |-> 0]
NoResult == [returncode |-> 0, stdout |-> 0, stderr |-> 0]

\* Python truthiness of a str: non-empty
Truthy(text) == text > 0

\* variant: any non-negative status counts as success
SucceededNonNegative(r) == r.returncode >= 0

\* variant: output on stderr counts as failure
SucceededQuiet(r) == r.returncode = 0 /\ r.stderr = 0

\* run_command's return value: result.returncode == 0
Succeeded(r) == r.returncode = 0

Init ==
    /\ pc = "chdir"
    /\ stage = "main"
    /\ child = NoChild
    /\ result = NoResult
    /\ ok = FALSE
    /\ out = <<>>
    /\ err = <<>>
    /\ log = <<>>
    /\ exits = <<>>
    /\ exitCode = 0
    /\ history = <<>>

\* print(x): one write to standard output
PrintOut(e) ==
    /\ out' = Append(out, e)
    /\ log' = Append(log, e)
    /\ err' = err

\* print(x, file=sys.stderr): one write to standard error
PrintErr(e) ==
    /\ err' = Append(err, e)
    /\ log' = Append(log, e)
    /\ out' = out

\* os.chdir succeeds; main calls run_command(build)
ChdirOk ==
    /\ pc = "chdir"
    /\ log' = Append(log, Ev("chdir", "main", "ok", 0))
    /\ pc' = "rc_sep_open"
    /\ stage' = "build"
    /\ UNCHANGED <<child, result, ok, out, err, exits, exitCode, history>>

\* variant: the OSError is swallowed and the run goes on
ChdirFailIgnored ==
    /\ pc = "chdir"
    /\ log' = Append(log, Ev("chdir", "main", "OSError", 0))
    /\ pc' = "rc_sep_open"
    /\ stage' = "build"
    /\ UNCHANGED <<child, result, ok, out, err, exits, exitCode, history>>

\* os.chdir raises OSError; nothing catches it: traceback on stderr, status 1
ChdirFail ==
    /\ pc = "chdir"
    /\ err' = Append(err, Ev("traceback", "main", "OSError", 0))
    /\ log' = Append(Append(log, Ev("chdir", "main", "OSError", 0)),
                     Ev("traceback", "main", "OSError", 0))
    /\ exitCode' = 1
    /\ pc' = "exited"
    /\ UNCHANGED <<stage, child, result, ok, out, exits, history>>

PrintSepOpen ==
    /\ pc = "rc_sep_open"
    /\ PrintOut(Ev("sep_open", stage, "=", SepWidth))
    /\ pc' = "rc_desc"
    /\ UNCHANGED <<stage, child, result, ok, exits, exitCode, history>>

\* variant: the closing separator is forgotten
PrintDescriptionNoClose ==
    /\ pc = "rc_desc"
    /\ PrintOut(Ev("desc", stage, Description(stage), 0))
    /\ pc' = "rc_run"
    /\ UNCHANGED <<stage, child, result, ok, exits, exitCode, history>>

PrintDescription ==
    /\ pc = "rc_desc"
    /\ PrintOut(Ev("desc", stage, Description(stage), 0))
    /\ pc' = "rc_sep_close"
    /\ UNCHANGED <<stage, child, result, ok, exits, exitCode, history>>

PrintSepClose ==
    /\ pc = "rc_sep_close"
    /\ PrintOut(Ev("sep_close", stage, "=", SepWidth))
    /\ pc' = "rc_run"
    /\ UNCHANGED <<stage, child, result, ok, exits, exitCode, history>>

\* subprocess.run, first half: the shell child is started
Spawn ==
    /\ pc = "rc_run"
    /\ \E h \in BOOLEAN :
          child' = [state |-> "running", hangs |-> h, returncode |-> 0,
                    stdout |-> 0, stderr |-> 0]
    /\ log' = Append(log, Ev("spawn", stage, Cmd(stage), 0))
    /\ pc' = "rc_wait"
    /\ UNCHANGED <<stage, result, ok, out, err, exits, exitCode, history>>

\* environment: the running child terminates with some status and output
ChildExitWith(rc, o, e) ==
    /\ child.state = "running"
    /\ ~child.hangs
    /\ child' = [state |-> "exited", hangs |-> FALSE, returncode |-> rc,
                 stdout |-> o, stderr |-> e]
    /\ log' = Append(log, Ev("exit", stage, "", rc))
    /\ exits' = Append(exits, [stage |-> stage, returncode |-> rc, stdout |-> o, stderr |-> e])
    /\ UNCHANGED <<pc, stage, result, ok, out, err, exitCode, history>>

ChildExit == \E rc \in Rcs, o \in TextLens, e \in TextLens : ChildExitWith(rc, o, e)

\* variant: the wait gives up on a child that is still running
WaitChildTimeout ==
    /\ pc = "rc_wait"
    /\ child.state \in {"running", "exited"}
    /\ result' = IF child.state = "exited"
                    THEN [returncode |-> child.returncode, stdout |-> child.stdout,
                          stderr |-> child.stderr]
                    ELSE [returncode |-> 1, stdout |-> 0, stderr |-> 0]
    /\ child' = NoChild
    /\ pc' = "rc_stdout"
    /\ UNCHANGED <<stage, ok, out, err, log, exits, exitCode, history>>

\* subprocess.run, second half: blocks until the child has terminated,
\* then returns the CompletedProcess
WaitChild ==
    /\ pc = "rc_wait"
    /\ child.state = "exited"
    /\ result' = [returncode |-> child.returncode, stdout |-> child.stdout,
                  stderr |-> child.stderr]
    /\ child' = NoChild
    /\ pc' = "rc_stdout"
    /\ UNCHANGED <<stage, ok, out, err, log, exits, exitCode, history>>

PrintStdout ==
    /\ pc = "rc_stdout"
    /\ PrintOut(Ev("stdout", stage, "", result.stdout))
    /\ pc' = "rc_stderr"
    /\ UNCHANGED <<stage, child, result, ok, exits, exitCode, history>>

\* variant: stderr is printed without testing it for emptiness
PrintStderrAlways ==
    /\ pc = "rc_stderr"
    /\ PrintErr(Ev("stderr", stage, "", result.stderr))
    /\ pc' = "rc_return"
    /\ UNCHANGED <<stage, child, result, ok, exits, exitCode, history>>

PrintStderr ==
    /\ pc = "rc_stderr"
    /\ IF Truthy(result.stderr)
          THEN PrintErr(Ev("stderr", stage, "", result.stderr))
          ELSE UNCHANGED <<out, err, log>>
    /\ pc' = "rc_return"
    /\ UNCHANGED <<stage, child, result, ok, exits, exitCode, history>>

\* variant: a failed command is run again (up to three spawns)
ReturnRetry ==
    /\ pc = "rc_return"
    /\ ok' = Succeeded(result)
    /\ pc' = IF Succeeded(result) THEN stage \o "_success"
             ELSE IF Len(SelectSeq(log, LAMBDA e : e.kind = "spawn")) < 3 THEN "rc_run"
             ELSE stage \o "_failed"
    /\ result' = NoResult
    /\ UNCHANGED <<stage, child, out, err, log, exits, exitCode, history>>

\* return result.returncode == 0, and the caller's "if not run_command(...)"
Return ==
    /\ pc = "rc_return"
    /\ ok' = Succeeded(result)
    /\ pc' = IF Succeeded(result) THEN stage \o "_success" ELSE stage \o "_failed"
    /\ result' = NoResult
    /\ UNCHANGED <<stage, child, out, err, log, exits, exitCode, history>>

\* variant: sys.exit(1) is missing after the build failure indicator
BuildFailedNoExit ==
    /\ pc = "build_failed"
    /\ PrintOut(Ev("fail", "build", BuildFailedMsg, 0))
    /\ pc' = "build_success"
    /\ UNCHANGED <<stage, child, result, ok, exits, exitCode, history>>

BuildFailed ==
    /\ pc = "build_failed"
    /\ PrintOut(Ev("fail", "build", BuildFailedMsg, 0))
    /\ pc' = "build_exit"
    /\ UNCHANGED <<stage, child, result, ok, exits, exitCode, history>>

BuildSuccess ==
    /\ pc = "build_success"
    /\ PrintOut(Ev("success", "build", BuildSuccessMsg, 0))
    /\ pc' = "rc_sep_open"
    /\ stage' = "test"
    /\ UNCHANGED <<child, result, ok, exits, exitCode, history>>

\* variant: sys.exit(1) is missing after the tests failure indicator
TestsFailedNoExit ==
    /\ pc = "test_failed"
    /\ PrintOut(Ev("fail", "test", TestsFailedMsg, 0))
    /\ pc' = "test_success"
    /\ UNCHANGED <<stage, child, result, ok, exits, exitCode, history>>

TestsFailed ==
    /\ pc = "test_failed"
    /\ PrintOut(Ev("fail", "test", TestsFailedMsg, 0))
    /\ pc' = "test_exit"
    /\ UNCHANGED <<stage, child, result, ok, exits, exitCode, history>>

\* variant: the summary line is not printed
TestsPassedNoSummary ==
    /\ pc = "test_success"
    /\ PrintOut(Ev("success", "test", TestsPassedMsg, 0))
    /\ pc' = "end"
    /\ UNCHANGED <<stage, child, result, ok, exits, exitCode, history>>

TestsPassed ==
    /\ pc = "test_success"
    /\ PrintOut(Ev("success", "test", TestsPassedMsg, 0))
    /\ pc' = "summary"
    /\ UNCHANGED <<stage, child, result, ok, exits, exitCode, history>>

PrintSummary ==
    /\ pc = "summary"
    /\ PrintOut(Ev("summary", "main", SummaryMsg, 0))
    /\ pc' = "end"
    /\ UNCHANGED <<stage, child, result, ok, exits, exitCode, history>>

\* sys.exit(1) after either failure indicator
SysExit ==
    /\ pc \in {"build_exit", "test_exit"}
    /\ exitCode' = 1
    /\ pc' = "exited"
    /\ UNCHANGED <<stage, child, result, ok, out, err, log, exits, history>>

\* the script runs off its end: the interpreter exits with status 0
EndOfScript ==
    /\ pc = "end"
    /\ exitCode' = 0
    /\ pc' = "exited"
    /\ UNCHANGED <<stage, child, result, ok, out, err, log, exits, history>>

IsIndicator(e) == e.kind \in {"success", "fail", "summary"}

Indicators(s) == SelectSeq(s, IsIndicator)

\* exit statuses of the children of this run, in order of termination
Statuses(x) == [i \in DOMAIN x |-> [stage |-> x[i].stage, returncode |-> x[i].returncode]]

Summary ==
    [cd |-> log[1].text, statuses |-> Statuses(exits), exitCode |-> exitCode,
     ind |-> Indicators(out)]

\* the script is started again: a new process, nothing kept from the last
Restart ==
    /\ pc = "exited"
    /\ Len(history) < MaxRuns - 1
    /\ history' = Append(history, Summary)
    /\ pc' = "chdir"
    /\ stage' = "main"
    /\ child' = NoChild
    /\ result' = NoResult
    /\ ok' = FALSE
    /\ out' = <<>>
    /\ err' = <<>>
    /\ log' = <<>>
    /\ exits' = <<>>
    /\ exitCode' = 0

RunnerStep ==
    \/ ChdirOk
    \/ ChdirFail
    \/ PrintSepOpen
    \/ PrintDescription
    \/ PrintSepClose
    \/ Spawn
    \/ WaitChild
    \/ PrintStdout
    \/ PrintStderr
    \/ Return
    \/ BuildFailed
    \/ BuildSuccess
    \/ TestsFailed
    \/ TestsPassed
    \/ PrintSummary
    \/ SysExit
    \/ EndOfScript

Next ==
    \/ RunnerStep
    \/ ChildExit
    \/ Restart

Spec == Init /\ [][Next]_vars

\* the interpreter keeps executing the script; a child that does not hang
\* terminates
FairSpec == Spec /\ WF_vars(RunnerStep) /\ WF_vars(ChildExit)

\* ---- vocabulary of the properties ----
Exited == pc = "exited"

ChdirFailed == Len(log) > 0 /\ log[1] = Ev("chdir", "main", "OSError", 0)

ChdirDone == Len(log) > 0 /\ log[1] = Ev("chdir", "main", "ok", 0)

ExitedZero(s) == \E i \in DOMAIN exits : exits[i].stage = s /\ exits[i].returncode = 0

ExitedNonZero(s) == \E i \in DOMAIN exits : exits[i].stage = s /\ exits[i].returncode # 0

IsSpawn(e) == e.kind = "spawn"

IsSpawnBuild(e) == e.kind = "spawn" /\ e.stage = "build"

IsSpawnTest(e) == e.kind = "spawn" /\ e.stage = "test"

IsSuccess(e) == e.kind = "success"

IsFail(e) == e.kind = "fail"

IsSummary(e) == e.kind = "summary"

IsTestStage(e) == e.stage = "test"

Count(s, T(_)) == Len(SelectSeq(s, T))

\* C1: a run that has ended has exit code 0 if the build child and the test
\* child both exited with status 0, and exit code 1 in every other case; no
\* other exit code occurs.
C1_ExitCode ==
    Exited => exitCode = (IF ExitedZero("build") /\ ExitedZero("test") THEN 0 ELSE 1)

C1_Witness ==
    /\ Exited
    /\ exitCode = 1
    /\ ExitedZero("build")
    /\ \E i \in DOMAIN exits : exits[i].stage = "test" /\ exits[i].returncode < 0

\* C2: once the build child has exited non-zero, the test command is never
\* spawned and nothing test-related, no success indicator and no summary is
\* printed; when the run has ended it has printed the build failure indicator
\* and its exit code is 1.
C2_FailFast ==
    ExitedNonZero("build") =>
        /\ Count(log, IsSpawnTest) = 0
        /\ Count(log, IsTestStage) = 0
        /\ Count(out, IsSuccess) = 0
        /\ Count(out, IsSummary) = 0
        /\ Exited => /\ exitCode = 1
                     /\ Indicators(out) = <<Ev("fail", "build", "Build FAILED", 0)>>

C2_Witness ==
    /\ Exited
    /\ ExitedNonZero("build")
    /\ Count(out, IsFail) = 1

\* C3: a run that has ended after both children exited 0 has exit code 0,
\* has run the test command with --no-build, and its indicators are exactly
\* build success, tests success, summary, in that order, with no failure
\* indicator.
C3_FullSuccess ==
    (Exited /\ ExitedZero("build") /\ ExitedZero("test")) =>
        /\ exitCode = 0
        /\ Indicators(out) = <<Ev("success", "build", "Build SUCCESS", 0),
                               Ev("success", "test", "Tests PASSED", 0),
                               Ev("summary", "main", "All tasks completed successfully!", 0)>>
        /\ Count(out, IsFail) = 0
        /\ SelectSeq(log, IsSpawnTest)
             = <<Ev("spawn", "test", "dotnet test DistributedLeasing.sln --no-build", 0)>>

C3_Witness ==
    /\ Exited
    /\ ExitedZero("build")
    /\ ExitedZero("test")
    /\ Count(out, IsSummary) = 1

\* C4: a run that has ended after the build child exited 0 and the test child
\* exited non-zero has exit code 1, printed exactly the build success
\* indicator and then the tests failure indicator, spawned the test command
\* exactly once and printed no summary.
C4_TestFailure ==
    (Exited /\ ExitedZero("build") /\ ExitedNonZero("test")) =>
        /\ exitCode = 1
        /\ Indicators(out) = <<Ev("success", "build", "Build SUCCESS", 0),
                               Ev("fail", "test", "Tests FAILED", 0)>>
        /\ Count(log, IsSpawnTest) = 1
        /\ Count(out, IsSummary) = 0

C4_Witness ==
    /\ Exited
    /\ ExitedZero("build")
    /\ ExitedNonZero("test")

\* the runner is past the printing of the captured output of stage s
PastOutput(s) ==
    \/ stage = s /\ pc \notin {"rc_wait", "rc_stdout", "rc_stderr"}
    \/ stage # s /\ s = "build"

StreamOf(stream, s, k) == SelectSeq(stream, LAMBDA e : e.stage = s /\ e.kind = k)

\* C5: for each child whose output has been printed, the error stream holds
\* its captured stderr exactly when that is non-empty (and nothing for it
\* otherwise), standard output holds its captured stdout exactly once whatever
\* its length and exit status, and standard output never holds child stderr.
C5_Passthrough ==
    /\ \A i \in DOMAIN exits :
          PastOutput(exits[i].stage) =>
             /\ StreamOf(out, exits[i].stage, "stdout")
                  = <<Ev("stdout", exits[i].stage, "", exits[i].stdout)>>
             /\ SelectSeq(err, LAMBDA e : e.stage = exits[i].stage)
                  = IF exits[i].stderr > 0
                       THEN <<Ev("stderr", exits[i].stage, "", exits[i].stderr)>>
                       ELSE <<>>
             /\ Len(SelectSeq(out, LAMBDA e : e.stage = exits[i].stage /\ ~IsIndicator(e))) = 4
    /\ \A j \in DOMAIN out : out[j].kind # "stderr"
    /\ \A j \in DOMAIN err : err[j].kind \in {"stderr", "traceback"}

C5_Witness ==
    /\ Exited
    /\ Len(exits) = 2
    /\ exits[1].stderr = 0 /\ exits[1].stdout = 0
    /\ exits[2].stderr > 0 /\ exits[2].returncode # 0
    /\ Len(err) = 1

\* C6: when chdir fails the run ends at once with an error (exit code 1):
\* no child is spawned and nothing is printed to standard output.
C6_ChdirAbort ==
    ChdirFailed =>
        /\ Exited
        /\ exitCode = 1
        /\ Count(log, IsSpawn) = 0
        /\ exits = <<>>
        /\ out = <<>>
        /\ child = NoChild

C6_Witness == ChdirFailed /\ Exited

NoSpawnAfterFailure ==
    \A i \in DOMAIN log :
        (log[i].kind = "exit" /\ log[i].val # 0) =>
            \A j \in DOMAIN log : j > i => log[j].kind # "spawn"

TestAfterBuildOk ==
    \A j \in DOMAIN log :
        IsSpawnTest(log[j]) =>
            \E i \in DOMAIN log : i < j /\ log[i] = Ev("exit", "build", "", 0)

AtMostOnce ==
    /\ Count(log, IsSpawnBuild) <= 1
    /\ Count(log, IsSpawnTest) <= 1

\* C7 as stated: each command is spawned at most once, the test command only
\* after the build child exited 0, nothing is spawned after a child exited
\* non-zero, and EVERY run that has ended spawned two children if the build
\* succeeded and one otherwise.
C7_Original ==
    /\ AtMostOnce
    /\ TestAfterBuildOk
    /\ NoSpawnAfterFailure
    /\ Exited => Count(log, IsSpawn) = (IF ExitedZero("build") THEN 2 ELSE 1)

\* C7 (amended): each command is spawned at most once, the test command only
\* after the build child exited 0, nothing is spawned after a child exited
\* non-zero; a run that has ended after a successful chdir spawned two
\* children if the build succeeded and one otherwise, and a run whose chdir
\* failed spawned none.
C7_NoRetryOrdering ==
    /\ AtMostOnce
    /\ TestAfterBuildOk
    /\ NoSpawnAfterFailure
    /\ (Exited /\ ChdirDone) =>
          Count(log, IsSpawn) = (IF ExitedZero("build") THEN 2 ELSE 1)
    /\ (Exited /\ ChdirFailed) => Count(log, IsSpawn) = 0

C7_Witness ==
    /\ Exited
    /\ ChdirDone
    /\ ExitedNonZero("build")
    /\ Count(log, IsSpawn) = 1

Hung == child.state = "running" /\ child.hangs

\* C8: a run whose children all terminate eventually ends with an exit code
\* (a run that has not ended leads to one that has ended or is blocked on a
\* child that never terminates); and while a child is running the runner
\* does not move: it prints nothing, spawns nothing and does not exit.
C8_Blocking ==
    /\ (~Exited) ~> (Exited \/ Hung)
    /\ [][child.state = "running" =>
            /\ pc' = pc
            /\ out' = out
            /\ err' = err
            /\ exitCode' = exitCode
            /\ Count(log', IsSpawn) = Count(log, IsSpawn)]_vars

C8_Witness ==
    /\ Hung
    /\ stage = "test"
    /\ pc = "rc_wait"

SameInputs(a, b) == a.cd = b.cd /\ a.statuses = b.statuses

\* C9: a run that has ended agrees, in exit code and in the sequence of
\* indicators, with every earlier run in which chdir had the same outcome and
\* the children returned the same exit statuses, whatever the children wrote.
C9_Deterministic ==
    Exited =>
        \A i \in DOMAIN history :
            SameInputs(history[i], Summary) =>
                /\ history[i].exitCode = Summary.exitCode
                /\ history[i].ind = Summary.ind

C9_Witness ==
    /\ Exited
    /\ Len(history) = 1
    /\ SameInputs(history[1], Summary)
    /\ Len(Summary.statuses) = 2
    /\ Summary.exitCode = 1

StageRank(s) == IF s = "build" THEN 1 ELSE 2

KindRank(k) ==
    CASE k = "sep_open" -> 1
      [] k = "desc" -> 2
      [] k = "sep_close" -> 3
      [] k = "spawn" -> 4
      [] k = "exit" -> 5
      [] k = "stdout" -> 6
      [] k = "stderr" -> 7
      [] OTHER -> 8

StageEvents == SelectSeq(log, LAMBDA e : e.stage \in Stages)

\* every event of kind k2 in se is preceded by one of kind k1 of its stage
Preceded(se, k1, k2) ==
    \A j \in DOMAIN se :
        se[j].kind = k2 =>
            \E i \in 1..(j - 1) : se[i].kind = k1 /\ se[i].stage = se[j].stage

\* C10: the events of a stage occur in the order separator, description,
\* separator, spawn, child exit, captured stdout, captured stderr (if any),
\* indicator, each one requiring all the earlier mandatory ones; and every
\* build-stage event precedes every test-stage event.
C10_EventOrder ==
    LET se == StageEvents IN
    /\ \A j \in DOMAIN se :
          \A i \in 1..(j - 1) :
             \/ StageRank(se[i].stage) < StageRank(se[j].stage)
             \/ /\ se[i].stage = se[j].stage
                /\ KindRank(se[i].kind) < KindRank(se[j].kind)
    /\ Preceded(se, "sep_open", "desc")
    /\ Preceded(se, "desc", "sep_close")
    /\ Preceded(se, "sep_close", "spawn")
    /\ Preceded(se, "spawn", "exit")
    /\ Preceded(se, "exit", "stdout")
    /\ Preceded(se, "stdout", "stderr")
    /\ Preceded(se, "stdout", "success")
    /\ Preceded(se, "stdout", "fail")

C10_Witness ==
    /\ Exited
    /\ Len(err) = 2
    /\ Count(out, IsFail) = 1
    /\ Len(StageEvents) = 16

TypeOK ==
    /\ pc \in {"chdir", "rc_sep_open", "rc_desc", "rc_sep_close", "rc_run", "rc_wait",
               "rc_stdout", "rc_stderr", "rc_return", "build_failed", "build_exit",
               "build_success", "test_failed", "test_exit", "test_success",
               "summary", "end", "exited"}
    /\ stage \in {"main", "build", "test"}
    /\ exitCode \in {0, 1}
    /\ Len(history) < MaxRuns
====
